---- MODULE Spec2Model ----
(***************************************************************************)
(* State-machine model of servoapi (src/src/lib.rs): the View that         *)
(* implements the engine's WindowMethods (geometry queries, notification   *)
(* callbacks, event queue), the Browser wrapper around the engine handle   *)
(* and the SynchroCompositorProxy that wakes the host's event loop.        *)
(*                                                                         *)
(* Representation notes.                                                   *)
(*  - A Rust u32 is a pair <<hi, lo>> of 16-bit halves (value hi*2^16+lo), *)
(*    because the model checker's integers are 32-bit signed and cannot    *)
(*    hold 2^32.  Arithmetic on the pairs is exact u32 arithmetic and      *)
(*    reports overflow; a build with overflow checks panics on overflow,   *)
(*    a build without them wraps: either outcome may follow an overflow.   *)
(*  - The f32 hidpi_factor is a fixed-point number of halves               *)
(*    (HidpiDenom = 2): 3 stands for 1.5.  `as u32` truncates.             *)
(***************************************************************************)
EXTENDS Integers, Sequences, FiniteSets, TLC

\* ------------------------------------------------------------------ bounds
MaxEvents == 2      \* callbacks invoked on the View in one run
MaxPolls == 2       \* get_events calls in one run
MaxBrowsers == 2    \* Browser objects created on the View
MaxViews == 2       \* View::new calls (geometry publications)
MaxQueries == 2     \* geometry queries between two publications
MaxProxies == 2     \* compositor proxies (the original and its clones)
MaxSends == 2       \* CompositorProxy::send calls in one run
MaxBoots == 2       \* successful Constellation::new calls in one run
MaxCalls == 2       \* handle_event and perform_updates calls in one run

\* ------------------------------------------------------- u32 arithmetic
Base == 65536
HalfBase == 32768

U32(n) == <<n \div Base, n % Base>>

U32Zero == <<0, 0>>

U32Lt(a, b) == a[1] < b[1] \/ (a[1] = b[1] /\ a[2] < b[2])

U32Le(a, b) == a = b \/ U32Lt(a, b)

\* a + b modulo 2^32, with the carry out
U32Add(a, b) ==
    LET lo == a[2] + b[2]
        hi == a[1] + b[1] + (lo \div Base)
    IN  [val |-> <<hi % Base, lo % Base>>, overflow |-> hi >= Base]

\* a - b modulo 2^32, with the borrow out
U32Sub(a, b) ==
    LET lo == a[2] - b[2]
        hi == a[1] - b[1] - (IF lo < 0 THEN 1 ELSE 0)
    IN  [val |-> <<(hi + Base) % Base, (lo + Base) % Base>>, overflow |-> hi < 0]

\* the 32-bit product of two 16-bit halves, as halves (by bytes, so that no
\* intermediate value leaves the checker's integer range)
Byte == 256

MulHalves(x, y) ==
    LET x1 == x \div Byte
        x0 == x % Byte
        y1 == y \div Byte
        y0 == y % Byte
        mid == (x1 * y0 + x0 * y1) * Byte + x0 * y0
    IN  [hi |-> x1 * y1 + (mid \div Base), lo |-> mid % Base]

\* a * b modulo 2^32, with overflow = the true product is 2^32 or more
U32Mul(a, b) ==
    LET ll == MulHalves(a[2], b[2])
        hl == MulHalves(a[1], b[2])
        lh == MulHalves(a[2], b[1])
        hi == ll.hi + hl.lo + lh.lo
    IN  [val |-> <<hi % Base, ll.lo>>,
         overflow |-> \/ (a[1] > 0 /\ b[1] > 0)
                      \/ hl.hi > 0
                      \/ lh.hi > 0
                      \/ hi >= Base]

\* ------------------------------------------------------------ input sets
HidpiDenom == 2
HidpiFactors == {1, 2, 3, 4}            \* 0.5, 1.0, 1.5, 2.0

ViewSizes == {<<U32(800), U32(600)>>, <<U32(100), U32(50)>>, <<U32(0), U32(0)>>,
              <<<<HalfBase, 0>>, U32(600)>>}

\* (top, right, bottom, left)
MarginSets == {<<U32(0), U32(0), U32(0), U32(0)>>,
               <<U32(20), U32(0), U32(0), U32(0)>>,
               <<U32(10), U32(20), U32(30), U32(40)>>,
               <<U32(0), U32(60), U32(0), U32(60)>>,
               <<U32(700), U32(0), U32(0), U32(0)>>,
               <<<<HalfBase, 0>>, U32(0), U32(0), U32(0)>>}

Positions == {<<0, 0>>, <<-5, 7>>}

\* struct DrawableGeometry
DrawableGeometry ==
    [view_size : ViewSizes, margins : MarginSets,
     position : Positions, hidpi_factor : HidpiFactors]

\* the geometry of the view built before the event-queue runs start
DefaultGeometry ==
    [view_size |-> <<U32(800), U32(600)>>,
     margins |-> <<U32(20), U32(0), U32(0), U32(0)>>,
     position |-> <<0, 0>>, hidpi_factor |-> 4]

\* ------------------------------------------------------ geometry queries
\* `hidpi_factor as u32`: float to integer conversion truncates toward zero
AsU32(f) == U32(f \div HidpiDenom)

\* View::hidpi_factor: the f32 factor itself, untruncated
hidpi_factor(g) == g.hidpi_factor

\* View::framebuffer_size: (scale_factor * width, scale_factor * height)
framebuffer_size(g) ==
    LET scale_factor == AsU32(g.hidpi_factor)
        w == U32Mul(scale_factor, g.view_size[1])
        h == U32Mul(scale_factor, g.view_size[2])
    IN  [width |-> w.val, height |-> h.val,
         overflow |-> w.overflow \/ h.overflow]

\* window_rect with the origin's coordinates exchanged
window_rect_swapped(g) ==
    LET scale_factor == AsU32(g.hidpi_factor)
        size == framebuffer_size(g)
        top == U32Mul(g.margins[1], scale_factor)
        right == U32Mul(g.margins[2], scale_factor)
        bottom == U32Mul(g.margins[3], scale_factor)
        left == U32Mul(g.margins[4], scale_factor)
        h1 == U32Sub(size.height, top.val)
        h2 == U32Sub(h1.val, bottom.val)
        w1 == U32Sub(size.width, left.val)
        w2 == U32Sub(w1.val, right.val)
    IN  [origin |-> <<top.val, left.val>>,
         size |-> <<w2.val, h2.val>>,
         overflow |-> \/ size.overflow
                      \/ top.overflow \/ right.overflow
                      \/ bottom.overflow \/ left.overflow
                      \/ h1.overflow \/ h2.overflow
                      \/ w1.overflow \/ w2.overflow]

\* window_rect that offsets the origin but forgets to shrink the size
window_rect_unshrunk(g) ==
    LET scale_factor == AsU32(g.hidpi_factor)
        size == framebuffer_size(g)
        top == U32Mul(g.margins[1], scale_factor)
        left == U32Mul(g.margins[4], scale_factor)
    IN  [origin |-> <<left.val, top.val>>,
         size |-> <<size.width, size.height>>,
         overflow |-> size.overflow \/ top.overflow \/ left.overflow]

\* View::window_rect
window_rect(g) ==
    LET scale_factor == AsU32(g.hidpi_factor)
        size == framebuffer_size(g)
        top == U32Mul(g.margins[1], scale_factor)
        right == U32Mul(g.margins[2], scale_factor)
        bottom == U32Mul(g.margins[3], scale_factor)
        left == U32Mul(g.margins[4], scale_factor)
        h1 == U32Sub(size.height, top.val)
        h2 == U32Sub(h1.val, bottom.val)
        w1 == U32Sub(size.width, left.val)
        w2 == U32Sub(w1.val, right.val)
    IN  [origin |-> <<left.val, top.val>>,
         size |-> <<w2.val, h2.val>>,
         overflow |-> \/ size.overflow
                      \/ top.overflow \/ right.overflow
                      \/ bottom.overflow \/ left.overflow
                      \/ h1.overflow \/ h2.overflow
                      \/ w1.overflow \/ w2.overflow]

\* View::size: the view size as f32 (exact: every ViewSizes value is below
\* 2^24 or a power of two)
size(g) == <<g.view_size[1], g.view_size[2]>>

\* View::client_window: (Size2D(width, height), Point2D(x, y))
client_window(g) ==
    [size |-> <<g.view_size[1], g.view_size[2]>>,
     point |-> <<g.position[1], g.position[2]>>]

\* ------------------------------------------------------------ the state
VARIABLES
    geometry,         \* View.geometry: Cell<DrawableGeometry>
    event_queue,      \* View.event_queue: RefCell<Vec<BrowserEvent>>
    servo_browser,    \* the Browser objects built on the View, in creation order
    channels,         \* the mpsc channels made by create_compositor_channel
    proxies,          \* the SynchroCompositorProxy objects
    panicked,         \* a panic has unwound the calling thread
    ret,              \* return value of the last value-returning View method
    wakes,            \* number of EventLoopRiser::rise invocations
    warnings,         \* number of warn! lines logged by send
    sends,            \* number of CompositorProxy::send calls started
    host_in,          \* the Browser whose engine the host thread is inside (0: none)
    host_pc,          \* the View method the host thread is in the middle of
    queue_borrow,     \* borrow flag of the event_queue RefCell
    gl_ok,            \* environment: the GL context can be made current
    fs,               \* environment: working directory and resource directories
    config,           \* the engine's process-wide configuration
    \* history variables (read by the properties only)
    published,        \* the geometry last passed to View::new
    views,            \* number of View::new calls
    queries,          \* geometry queries since the last View::new
    last_origin,      \* the Browser whose engine made the latest callback (0: none yet)
    last_call,        \* the latest callback: its name and arguments
    history,          \* every event, in callback invocation order
    results,          \* the return values of the get_events calls, in call order
    wakes_at_poll,    \* value of wakes at the last get_events
    unwoken           \* proxies whose delivered message no rise has followed yet

vars == <<geometry, event_queue, servo_browser, channels, proxies,
          panicked, ret, wakes, warnings, sends,
          host_in, host_pc, queue_borrow, gl_ok, fs, config,
          published, views, queries, last_origin, last_call, history, results,
          wakes_at_poll, unwoken>>

geomVars == <<geometry, published, views, queries>>
queueVars == <<event_queue, last_origin, last_call, history, results, wakes_at_poll>>
proxyVars == <<channels, proxies, wakes, warnings, sends, unwoken>>
hostVars == <<host_in, host_pc, queue_borrow>>
envVars == <<gl_ok, fs, config>>

NoReturn == [op |-> "none", val |-> <<>>]

Call(name, args) == [name |-> name, args |-> args]

NoCall == Call("none", <<>>)

Idle == [op |-> "idle"]

Browsers == 1..Len(servo_browser)

\* ------------------------------------------------------- Constellation
\* the states of the working directory: two directories with UTF-8 paths, one
\* whose path is not UTF-8, and one that was removed (current_dir() fails)
Cwds == {"/app", "/srv", "/non-utf8", "removed"}

\* the working directories that can hold a servo_resources/ directory
Dirs == {"/app", "/srv", "/non-utf8"}

FsStates == [cwd : Cwds, resources : SUBSET Dirs]

\* the configuration of a process in which Constellation::new never ran
NoConfig ==
    [resources_path |-> "unset", default_opts |-> "unset",
     layout_threads |-> "unset", defaults_set |-> 0]

\* opts::default_opts() with headless = false and url = https://servo.org
DefaultOpts == [headless |-> FALSE, url |-> "https://servo.org"]

\* a Constellation::new that configures the engine before it looks for the
\* resources directory
constellation_new_eager(f, c) ==
    LET done == [resources_path |-> "servo_resources/",
                 default_opts |-> DefaultOpts,
                 layout_threads |-> 1,
                 defaults_set |-> c.defaults_set + 1]
    IN  IF f.cwd = "removed"
        THEN [panic |-> TRUE, result |-> "none", config |-> c]
        ELSE IF f.cwd \notin f.resources
        THEN [panic |-> FALSE, result |-> "Err", config |-> done]
        ELSE [panic |-> FALSE, result |-> "Ok", config |-> done]

\* Constellation::new, as a function of the file system and the configuration
constellation_new(f, c) ==
    IF f.cwd = "removed"
    THEN \* env::current_dir().unwrap()
         [panic |-> TRUE, result |-> "none", config |-> c]
    ELSE IF f.cwd \notin f.resources
    THEN \* !path.exists(): return Err(..)
         [panic |-> FALSE, result |-> "Err", config |-> c]
    ELSE IF f.cwd = "/non-utf8"
    THEN \* path.to_str().unwrap()
         [panic |-> TRUE, result |-> "none", config |-> c]
    ELSE [panic |-> FALSE, result |-> "Ok",
          config |-> [resources_path |-> f.cwd \o "/servo_resources/",
                      default_opts |-> DefaultOpts,
                      layout_threads |-> 1,
                      defaults_set |-> c.defaults_set + 1]]

\* the file system in which the runs that start with a View begin
BootFs == [cwd |-> "/app", resources |-> {"/app"}]

\* ---------------------------------------------------------- construction
\* a View::new that keeps a built-in geometry instead of its argument
ViewNewStateDefault(g) == [geometry |-> DefaultGeometry, event_queue |-> <<>>]

\* View::new: a fresh View holding the given geometry and an empty queue
ViewNewState(g) == [geometry |-> g, event_queue |-> <<>>]

\* the state shared by every initial state
InitView ==
    /\ event_queue = ViewNewState(geometry).event_queue
    /\ channels = <<>>
    /\ proxies = <<>>
    /\ panicked = FALSE
    /\ ret = NoReturn
    /\ wakes = 0
    /\ warnings = 0
    /\ sends = 0
    /\ published = geometry
    /\ views = 1
    /\ queries = 0
    /\ last_origin = 0
    /\ last_call = NoCall
    /\ history = <<>>
    /\ results = <<>>
    /\ wakes_at_poll = 0
    /\ unwoken = {}
    /\ host_in = 0
    /\ host_pc = Idle
    /\ queue_borrow = FALSE
    /\ gl_ok = TRUE

\* no Browser yet
InitCommon ==
    /\ servo_browser = <<>>
    /\ InitView

\* Constellation, Compositor and one View built with DefaultGeometry
Init ==
    /\ geometry = ViewNewState(DefaultGeometry).geometry
    /\ fs = BootFs
    /\ config = constellation_new(BootFs, NoConfig).config
    /\ InitCommon

\* the same, with the View's geometry drawn from DrawableGeometry
InitGeom ==
    /\ \E g \in DrawableGeometry : geometry = ViewNewState(g).geometry
    /\ fs = BootFs
    /\ config = constellation_new(BootFs, NoConfig).config
    /\ InitCommon

\* process start: no Constellation yet, any file system; the View variables
\* hold what the first View::new will give them and stay untouched
InitBoot ==
    /\ geometry = ViewNewState(DefaultGeometry).geometry
    /\ fs \in FsStates
    /\ config = NoConfig
    /\ InitCommon

\* Constellation::new, called by the host
ConstellationNew ==
    LET r == constellation_new(fs, config)
    IN  /\ ~panicked
        /\ config.defaults_set < MaxBoots
        /\ panicked' = r.panic
        /\ config' = r.config
        /\ ret' = IF r.panic THEN NoReturn
                  ELSE [op |-> "Constellation::new", val |-> r.result]
        /\ UNCHANGED <<gl_ok, fs, servo_browser>>
        /\ UNCHANGED hostVars
        /\ UNCHANGED geomVars
        /\ UNCHANGED queueVars
        /\ UNCHANGED proxyVars

\* the environment: chdir, and servo_resources/ made or removed
chdir(c) ==
    /\ ~panicked
    /\ c # fs.cwd
    /\ fs' = [fs EXCEPT !.cwd = c]
    /\ UNCHANGED <<gl_ok, config, servo_browser, panicked, ret>>
    /\ UNCHANGED hostVars
    /\ UNCHANGED geomVars
    /\ UNCHANGED queueVars
    /\ UNCHANGED proxyVars

set_resources_dir(d, exists) ==
    /\ ~panicked
    /\ (d \in fs.resources) # exists
    /\ fs' = [fs EXCEPT !.resources = IF exists THEN @ \cup {d} ELSE @ \ {d}]
    /\ UNCHANGED <<gl_ok, config, servo_browser, panicked, ret>>
    /\ UNCHANGED hostVars
    /\ UNCHANGED geomVars
    /\ UNCHANGED queueVars
    /\ UNCHANGED proxyVars

\* View::new called again: the host replaces its View by a fresh one
ViewNew(g) ==
    /\ ~panicked
    /\ UNCHANGED hostVars
    /\ UNCHANGED envVars
    /\ views < MaxViews
    /\ servo_browser = <<>>
    /\ geometry' = ViewNewState(g).geometry
    /\ event_queue' = ViewNewState(g).event_queue
    /\ published' = g
    /\ views' = views + 1
    /\ queries' = 0
    /\ ret' = NoReturn
    /\ last_origin' = 0
    /\ last_call' = NoCall
    /\ history' = <<>>
    /\ results' = <<>>
    /\ wakes_at_poll' = wakes
    /\ UNCHANGED <<servo_browser, panicked>>
    /\ UNCHANGED proxyVars

\* Browser::new: servo::Browser::new(view.clone()), then
\* handle_events(vec![InitializeCompositing]), then wrap in a RefCell
\* (calls: the host's handle_event and perform_updates calls so far, kept
\* for the properties)
BrowserNewStateUninitialized ==
    [borrowed |-> FALSE, batches |-> <<>>, calls |-> <<>>]

BrowserNewState ==
    [borrowed |-> FALSE,
     batches |-> << <<"InitializeCompositing">> >>,
     calls |-> <<>>]

BrowserNew ==
    /\ ~panicked
    /\ host_in = 0
    /\ host_pc = Idle
    /\ UNCHANGED hostVars
    /\ UNCHANGED envVars
    /\ Len(servo_browser) < MaxBrowsers
    /\ servo_browser' = Append(servo_browser, BrowserNewState)
    /\ UNCHANGED <<panicked, ret>>
    /\ UNCHANGED geomVars
    /\ UNCHANGED queueVars
    /\ UNCHANGED proxyVars

\* as Init, after the first Browser::new on the View
InitFrame ==
    /\ geometry = ViewNewState(DefaultGeometry).geometry
    /\ fs = BootFs
    /\ config = constellation_new(BootFs, NoConfig).config
    /\ servo_browser = <<BrowserNewState>>
    /\ InitView

\* ------------------------------------------------ calls into the engine
WindowEvents == {"Refresh", "InitializeCompositing"}

\* the batch Browser::handle_event hands to the engine: vec![event]
handle_event_batch_empty(event) == <<>>

handle_event_batch(event) == <<event>>

\* the batch Browser::perform_updates hands to the engine: vec![]
perform_updates_batch == <<>>

RECURSIVE CallCount(_)
CallCount(n) ==
    IF n = 0 THEN 0 ELSE Len(servo_browser[n].calls) + CallCount(n - 1)

\* self.servo_browser.borrow_mut().handle_events(batch), up to the point
\* where the engine runs: borrow_mut panics when the RefCell is already
\* borrowed. The host thread is inside the engine until EngineReturn.
EngineCall(b, c, batch) ==
    /\ ~panicked
    /\ host_in = 0
    /\ host_pc = Idle
    /\ CallCount(Len(servo_browser)) < MaxCalls
    /\ IF servo_browser[b].borrowed
       THEN /\ panicked' = TRUE
            /\ UNCHANGED <<servo_browser, host_in>>
       ELSE /\ servo_browser' =
                  [servo_browser EXCEPT
                      ![b].borrowed = TRUE,
                      ![b].batches = Append(@, batch),
                      ![b].calls = Append(@, c)]
            /\ host_in' = b
            /\ UNCHANGED panicked
    /\ UNCHANGED <<host_pc, queue_borrow, ret>>
    /\ UNCHANGED envVars
    /\ UNCHANGED geomVars
    /\ UNCHANGED queueVars
    /\ UNCHANGED proxyVars

handle_event(b, event) ==
    EngineCall(b, Call("handle_event", <<event>>), handle_event_batch(event))

perform_updates(b) ==
    EngineCall(b, Call("perform_updates", <<>>), perform_updates_batch)

\* handle_events returns: the RefMut temporary is dropped at the end of the
\* statement and the call returns to the host
EngineReturn(b) ==
    /\ ~panicked
    /\ host_in = b
    /\ host_pc = Idle
    /\ servo_browser' = [servo_browser EXCEPT ![b].borrowed = FALSE]
    /\ host_in' = 0
    /\ UNCHANGED <<host_pc, queue_borrow, panicked, ret>>
    /\ UNCHANGED envVars
    /\ UNCHANGED geomVars
    /\ UNCHANGED queueVars
    /\ UNCHANGED proxyVars

\* ------------------------------------------------ geometry query actions
\* a geometry query returning val; when its arithmetic overflowed, a build
\* with overflow checks panics and a build without them returns the wrapped val
Query(op, val, overflow) ==
    /\ ~panicked
    /\ UNCHANGED hostVars
    /\ UNCHANGED envVars
    /\ queries < MaxQueries
    /\ queries' = queries + 1
    /\ \E overflow_checks \in BOOLEAN :
          IF overflow /\ overflow_checks
          THEN /\ panicked' = TRUE
               /\ ret' = NoReturn
          ELSE /\ panicked' = FALSE
               /\ ret' = [op |-> op, val |-> val]
    /\ UNCHANGED <<geometry, published, views, event_queue, servo_browser>>
    /\ UNCHANGED <<last_origin, last_call, history, results, wakes_at_poll>>
    /\ UNCHANGED proxyVars

HidpiFactor == Query("hidpi_factor", hidpi_factor(geometry), FALSE)

FramebufferSize ==
    LET r == framebuffer_size(geometry)
    IN  Query("framebuffer_size", <<r.width, r.height>>, r.overflow)

WindowRect ==
    LET r == window_rect(geometry)
    IN  Query("window_rect", [origin |-> r.origin, size |-> r.size], r.overflow)

Size == Query("size", size(geometry), FALSE)

ClientWindow == Query("client_window", client_window(geometry), FALSE)

\* View::prepare_for_composite: the body is the constant true; the GL
\* context is not touched
prepare_for_composite_result(ok) == TRUE

PrepareForComposite ==
    /\ ~panicked
    /\ queries < MaxQueries
    /\ queries' = queries + 1
    /\ ret' = [op |-> "prepare_for_composite",
               val |-> prepare_for_composite_result(gl_ok)]
    /\ UNCHANGED <<geometry, published, views, event_queue, servo_browser>>
    /\ UNCHANGED <<last_origin, last_call, history, results, wakes_at_poll>>
    /\ UNCHANGED panicked
    /\ UNCHANGED proxyVars
    /\ UNCHANGED hostVars
    /\ UNCHANGED envVars

\* the host's GL context is lost or comes back (outside the adapter)
gl_context_change(ok) ==
    /\ ~panicked
    /\ gl_ok # ok
    /\ gl_ok' = ok
    /\ UNCHANGED <<fs, config>>
    /\ UNCHANGED <<servo_browser, panicked, ret>>
    /\ UNCHANGED geomVars
    /\ UNCHANGED queueVars
    /\ UNCHANGED proxyVars
    /\ UNCHANGED hostVars

\* --------------------------------------------------- the BrowserEvent enum
Event(type, args) == [type |-> type, args |-> args]

Sizes == {<<800, 600>>}
Points == {<<10, -20>>}
OptStrings == {"None", "Some(a)"}
StatusStrings == {"Some(s)"}
Strings == {"u"}
Urls == {"https://servo.org/"}
Histories == {<< <<"l1", "l2">>, 1 >>}
Cursors == {"Pointer"}
KeyChars == {"Some(x)"}
Keys == {"Escape"}
KeyModifiers == {0}

\* a push that inserts at the head of the vector
push_front(q, e) == <<e>> \o q

\* Vec::push
push(q, e) == Append(q, e)

\* a copy of the content that leaves the queue as it was
drain_clone(q) == [copy |-> q, rest |-> q]

\* events.drain(..).collect(): the whole content, in order; nothing is left
drain(q) == [copy |-> q, rest |-> <<>>]

\* ------------------------------------------------- notification callbacks
\* a callback that reaches back for the engine handle of its Browser
Notify_reborrow(b, c, e) ==
    /\ ~panicked
    /\ UNCHANGED hostVars
    /\ UNCHANGED envVars
    /\ Len(history) < MaxEvents
    /\ panicked' = servo_browser[b].borrowed
    /\ event_queue' = push(event_queue, e)
    /\ last_origin' = b
    /\ last_call' = c
    /\ history' = Append(history, e)
    /\ UNCHANGED <<results, wakes_at_poll, servo_browser, ret>>
    /\ UNCHANGED geomVars
    /\ UNCHANGED proxyVars

\* self.event_queue.borrow_mut().push(e), called by the engine of Browser b
Notify(b, c, e) ==
    /\ ~panicked
    /\ UNCHANGED hostVars
    /\ UNCHANGED envVars
    /\ Len(history) < MaxEvents
    /\ event_queue' = push(event_queue, e)
    /\ last_origin' = b
    /\ last_call' = c
    /\ history' = Append(history, e)
    /\ UNCHANGED <<results, wakes_at_poll, servo_browser, panicked, ret>>
    /\ UNCHANGED geomVars
    /\ UNCHANGED proxyVars

set_inner_size(b, sz) ==
    Notify(b, Call("set_inner_size", <<sz>>),
           Event("SetWindowInnerSize", <<sz[1], sz[2]>>))

\* a set_position that takes the coordinates in the wrong order
set_position_swapped(b, pt) ==
    Notify(b, Call("set_position", <<pt>>),
           Event("SetWindowPosition", <<pt[2], pt[1]>>))

set_position(b, pt) ==
    Notify(b, Call("set_position", <<pt>>),
           Event("SetWindowPosition", <<pt[1], pt[2]>>))

set_fullscreen_state(b, state) ==
    Notify(b, Call("set_fullscreen_state", <<state>>),
           Event("SetFullScreenState", <<state>>))

present(b) == Notify(b, Call("present", <<>>), Event("Present", <<>>))

set_page_title(b, title) ==
    Notify(b, Call("set_page_title", <<title>>),
           Event("TitleChanged", <<title>>))

status(b, st) ==
    Notify(b, Call("status", <<st>>),
           Event("StatusChanged", <<st>>))

load_start(b) == Notify(b, Call("load_start", <<>>), Event("LoadStart", <<>>))

load_end(b) == Notify(b, Call("load_end", <<>>), Event("LoadEnd", <<>>))

\* the NetError argument is dropped
load_error(b, err, url) ==
    Notify(b, Call("load_error", <<err, url>>),
           Event("LoadError", <<url>>))

head_parsed(b) ==
    Notify(b, Call("head_parsed", <<>>),
           Event("HeadParsed", <<>>))

history_changed(b, entries, current) ==
    Notify(b, Call("history_changed", <<entries, current>>),
           Event("HistoryChanged", <<entries, current>>))

set_cursor(b, cursor) ==
    Notify(b, Call("set_cursor", <<cursor>>),
           Event("CursorChanged", <<cursor>>))

set_favicon(b, url) ==
    Notify(b, Call("set_favicon", <<url>>),
           Event("FaviconChanged", <<url>>))

handle_key(b, ch, key, mods) ==
    Notify(b, Call("handle_key", <<ch, key, mods>>),
           Event("Key", <<ch, key, mods>>))

\* View::allow_navigation: answers true at once; the queue is not touched
allow_navigation_result(q, url) == [queue |-> q, answer |-> "true"]

allow_navigation(b, url) ==
    /\ ~panicked
    /\ UNCHANGED hostVars
    /\ UNCHANGED envVars
    /\ event_queue' = allow_navigation_result(event_queue, url).queue
    /\ ret' = [op |-> "allow_navigation",
               val |-> allow_navigation_result(event_queue, url).answer]
    /\ UNCHANGED <<last_origin, last_call, history, results, wakes_at_poll>>
    /\ UNCHANGED <<servo_browser, panicked>>
    /\ UNCHANGED geomVars
    /\ UNCHANGED proxyVars

\* View::get_events, called by the host
get_events ==
    /\ ~panicked
    /\ UNCHANGED hostVars
    /\ UNCHANGED envVars
    /\ Len(results) < MaxPolls
    /\ results' = Append(results, drain(event_queue).copy)
    /\ event_queue' = drain(event_queue).rest
    /\ wakes_at_poll' = wakes
    /\ UNCHANGED <<last_origin, last_call, history, servo_browser, panicked, ret>>
    /\ UNCHANGED geomVars
    /\ UNCHANGED proxyVars

\* ------------------------------------ the queue accesses, step by step
\* the callbacks the engine makes in the step-by-step specification
Notifications ==
    {[call |-> Call("present", <<>>), event |-> Event("Present", <<>>)],
     [call |-> Call("load_end", <<>>), event |-> Event("LoadEnd", <<>>)]}

\* a callback of the engine of Browser b, made on the host's thread from
\* inside handle_events: self.event_queue.borrow_mut(), which panics when
\* the RefCell is already borrowed
NotifyBorrow(b, n) ==
    /\ ~panicked
    /\ host_in = b
    /\ host_pc = Idle
    /\ Len(history) < MaxEvents
    /\ IF queue_borrow
       THEN /\ panicked' = TRUE
            /\ UNCHANGED <<host_pc, queue_borrow>>
       ELSE /\ queue_borrow' = TRUE
            /\ host_pc' = [op |-> "push", origin |-> b,
                           call |-> n.call, event |-> n.event]
            /\ UNCHANGED panicked
    /\ UNCHANGED <<host_in, servo_browser, ret>>
    /\ UNCHANGED envVars
    /\ UNCHANGED geomVars
    /\ UNCHANGED queueVars
    /\ UNCHANGED proxyVars

\* a push that keeps its RefMut after the statement
NotifyPush_holding ==
    /\ ~panicked
    /\ host_pc.op = "push"
    /\ event_queue' = push(event_queue, host_pc.event)
    /\ last_origin' = host_pc.origin
    /\ last_call' = host_pc.call
    /\ history' = Append(history, host_pc.event)
    /\ host_pc' = Idle
    /\ UNCHANGED <<results, wakes_at_poll>>
    /\ UNCHANGED <<host_in, queue_borrow, servo_browser, panicked, ret>>
    /\ UNCHANGED envVars
    /\ UNCHANGED geomVars
    /\ UNCHANGED proxyVars

\* .push(e), and the RefMut temporary dropped at the end of the statement
NotifyPush ==
    /\ ~panicked
    /\ host_pc.op = "push"
    /\ event_queue' = push(event_queue, host_pc.event)
    /\ last_origin' = host_pc.origin
    /\ last_call' = host_pc.call
    /\ history' = Append(history, host_pc.event)
    /\ queue_borrow' = FALSE
    /\ host_pc' = Idle
    /\ UNCHANGED <<results, wakes_at_poll>>
    /\ UNCHANGED <<host_in, servo_browser, panicked, ret>>
    /\ UNCHANGED envVars
    /\ UNCHANGED geomVars
    /\ UNCHANGED proxyVars

\* View::get_events, first statement: let mut events =
\* self.event_queue.borrow_mut()
get_events_borrow ==
    /\ ~panicked
    /\ host_in = 0
    /\ host_pc = Idle
    /\ Len(results) < MaxPolls
    /\ IF queue_borrow
       THEN /\ panicked' = TRUE
            /\ UNCHANGED <<host_pc, queue_borrow>>
       ELSE /\ queue_borrow' = TRUE
            /\ host_pc' = [op |-> "get_events", copy |-> <<>>, drained |-> FALSE]
            /\ UNCHANGED panicked
    /\ UNCHANGED <<host_in, servo_browser, ret>>
    /\ UNCHANGED envVars
    /\ UNCHANGED geomVars
    /\ UNCHANGED queueVars
    /\ UNCHANGED proxyVars

\* View::get_events, second statement: let copy = events.drain(..).collect()
get_events_drain ==
    /\ ~panicked
    /\ host_pc.op = "get_events"
    /\ ~host_pc.drained
    /\ host_pc' = [host_pc EXCEPT !.copy = drain(event_queue).copy,
                                  !.drained = TRUE]
    /\ event_queue' = drain(event_queue).rest
    /\ UNCHANGED <<last_origin, last_call, history, results, wakes_at_poll>>
    /\ UNCHANGED <<host_in, queue_borrow, servo_browser, panicked, ret>>
    /\ UNCHANGED envVars
    /\ UNCHANGED geomVars
    /\ UNCHANGED proxyVars

\* View::get_events returns copy; events (the RefMut) is dropped
get_events_return ==
    /\ ~panicked
    /\ host_pc.op = "get_events"
    /\ host_pc.drained
    /\ results' = Append(results, host_pc.copy)
    /\ wakes_at_poll' = wakes
    /\ queue_borrow' = FALSE
    /\ host_pc' = Idle
    /\ UNCHANGED <<event_queue, last_origin, last_call, history>>
    /\ UNCHANGED <<host_in, servo_browser, panicked, ret>>
    /\ UNCHANGED envVars
    /\ UNCHANGED geomVars
    /\ UNCHANGED proxyVars

\* ------------------------------------------------- the compositor proxy
Msgs == {"Recomposite"}

Channels == 1..Len(channels)
Proxies == 1..Len(proxies)

\* View::create_compositor_channel, called by the engine of a Browser:
\* a new mpsc channel, and a proxy holding its sender and a clone of the riser
create_compositor_channel(b) ==
    /\ ~panicked
    /\ UNCHANGED hostVars
    /\ UNCHANGED envVars
    /\ channels = <<>>
    /\ Len(proxies) < MaxProxies
    /\ channels' = Append(channels, [queue |-> <<>>, alive |-> TRUE])
    /\ proxies' = Append(proxies, [chan |-> Len(channels) + 1, pc |-> "idle"])
    /\ UNCHANGED <<wakes, warnings, sends, unwoken>>
    /\ UNCHANGED <<servo_browser, panicked, ret>>
    /\ UNCHANGED geomVars
    /\ UNCHANGED queueVars

\* SynchroCompositorProxy::clone_compositor_proxy: same channel, cloned riser
clone_compositor_proxy(p) ==
    /\ ~panicked
    /\ UNCHANGED hostVars
    /\ UNCHANGED envVars
    /\ Len(proxies) < MaxProxies
    /\ proxies' = Append(proxies, [chan |-> proxies[p].chan, pc |-> "idle"])
    /\ UNCHANGED <<channels, wakes, warnings, sends, unwoken>>
    /\ UNCHANGED <<servo_browser, panicked, ret>>
    /\ UNCHANGED geomVars
    /\ UNCHANGED queueVars

\* mpsc::Sender::send: Err when the receiver is gone, else the message is queued
sender_send(ch, msg) ==
    IF ch.alive
    THEN [chan |-> [ch EXCEPT !.queue = Append(@, msg)], ok |-> TRUE]
    ELSE [chan |-> ch, ok |-> FALSE]

\* a send that unwraps the result of sender.send instead of logging the error
send_msg_unwrap(p, msg) ==
    LET c == proxies[p].chan
        r == sender_send(channels[c], msg)
    IN  /\ ~panicked
        /\ UNCHANGED hostVars
        /\ UNCHANGED envVars
        /\ proxies[p].pc = "idle"
        /\ sends < MaxSends
        /\ sends' = sends + 1
        /\ channels' = [channels EXCEPT ![c] = r.chan]
        /\ panicked' = ~r.ok
        /\ unwoken' = IF r.ok THEN unwoken \cup {p} ELSE unwoken
        /\ proxies' = [proxies EXCEPT ![p].pc = IF r.ok THEN "rise" ELSE "idle"]
        /\ UNCHANGED <<wakes, warnings>>
        /\ UNCHANGED <<servo_browser, ret>>
        /\ UNCHANGED geomVars
        /\ UNCHANGED queueVars

\* SynchroCompositorProxy::send, first statement: self.sender.send(msg),
\* with warn! on Err.  Runs on whichever engine thread owns the proxy.
send_msg(p, msg) ==
    LET c == proxies[p].chan
        r == sender_send(channels[c], msg)
    IN  /\ ~panicked
        /\ UNCHANGED hostVars
        /\ UNCHANGED envVars
        /\ proxies[p].pc = "idle"
        /\ sends < MaxSends
        /\ sends' = sends + 1
        /\ channels' = [channels EXCEPT ![c] = r.chan]
        /\ warnings' = IF r.ok THEN warnings ELSE warnings + 1
        /\ unwoken' = IF r.ok THEN unwoken \cup {p} ELSE unwoken
        /\ proxies' = [proxies EXCEPT ![p].pc = "rise"]
        /\ UNCHANGED wakes
        /\ UNCHANGED <<servo_browser, panicked, ret>>
        /\ UNCHANGED geomVars
        /\ UNCHANGED queueVars

\* EventLoopRiser::rise as seen by the adapter: one more wake of the host loop
rise(w) == w + 1

\* a send that returns without waking the host
send_rise_skipped(p) ==
    /\ ~panicked
    /\ UNCHANGED hostVars
    /\ UNCHANGED envVars
    /\ proxies[p].pc = "rise"
    /\ proxies' = [proxies EXCEPT ![p].pc = "idle"]
    /\ UNCHANGED <<channels, warnings, sends, wakes, unwoken>>
    /\ UNCHANGED <<servo_browser, panicked, ret>>
    /\ UNCHANGED geomVars
    /\ UNCHANGED queueVars

\* a send whose wake also empties the View's queue
send_rise_clearing(p) ==
    /\ ~panicked
    /\ UNCHANGED hostVars
    /\ UNCHANGED envVars
    /\ proxies[p].pc = "rise"
    /\ wakes' = rise(wakes)
    /\ unwoken' = {}
    /\ proxies' = [proxies EXCEPT ![p].pc = "idle"]
    /\ event_queue' = <<>>
    /\ UNCHANGED <<last_origin, last_call, history, results, wakes_at_poll>>
    /\ UNCHANGED <<channels, warnings, sends>>
    /\ UNCHANGED <<servo_browser, panicked, ret>>
    /\ UNCHANGED geomVars

\* SynchroCompositorProxy::send, second statement: self.riser.rise(); return
send_rise(p) ==
    /\ ~panicked
    /\ UNCHANGED hostVars
    /\ UNCHANGED envVars
    /\ proxies[p].pc = "rise"
    /\ wakes' = rise(wakes)
    /\ unwoken' = IF wakes' > wakes THEN {} ELSE unwoken
    /\ proxies' = [proxies EXCEPT ![p].pc = "idle"]
    /\ UNCHANGED <<channels, warnings, sends>>
    /\ UNCHANGED <<servo_browser, panicked, ret>>
    /\ UNCHANGED geomVars
    /\ UNCHANGED queueVars

\* the engine's compositor takes the next message off the CompositorReceiver
receiver_recv(c) ==
    /\ ~panicked
    /\ UNCHANGED hostVars
    /\ UNCHANGED envVars
    /\ channels[c].alive
    /\ channels[c].queue # <<>>
    /\ channels' = [channels EXCEPT ![c].queue = Tail(@)]
    /\ UNCHANGED <<proxies, wakes, warnings, sends, unwoken>>
    /\ UNCHANGED <<servo_browser, panicked, ret>>
    /\ UNCHANGED geomVars
    /\ UNCHANGED queueVars

\* the engine drops the CompositorReceiver (shutdown): later sends fail
receiver_drop(c) ==
    /\ ~panicked
    /\ UNCHANGED hostVars
    /\ UNCHANGED envVars
    /\ channels[c].alive
    /\ channels' = [channels EXCEPT ![c] = [queue |-> <<>>, alive |-> FALSE]]
    /\ UNCHANGED <<proxies, wakes, warnings, sends, unwoken>>
    /\ UNCHANGED <<servo_browser, panicked, ret>>
    /\ UNCHANGED geomVars
    /\ UNCHANGED queueVars

\* ------------------------------------------------------ specifications
\* the event queue: every notification callback and get_events
Next ==
    \/ BrowserNew
    \/ \E b \in Browsers, sz \in Sizes : set_inner_size(b, sz)
    \/ \E b \in Browsers, pt \in Points : set_position(b, pt)
    \/ \E b \in Browsers, st \in BOOLEAN : set_fullscreen_state(b, st)
    \/ \E b \in Browsers : present(b)
    \/ \E b \in Browsers, t \in OptStrings : set_page_title(b, t)
    \/ \E b \in Browsers, t \in StatusStrings : status(b, t)
    \/ \E b \in Browsers : load_start(b)
    \/ \E b \in Browsers : load_end(b)
    \/ \E b \in Browsers, u \in Strings : load_error(b, "ConnectionRefused", u)
    \/ \E b \in Browsers : head_parsed(b)
    \/ \E b \in Browsers, h \in Histories : history_changed(b, h[1], h[2])
    \/ \E b \in Browsers, c \in Cursors : set_cursor(b, c)
    \/ \E b \in Browsers, u \in Urls : set_favicon(b, u)
    \/ \E b \in Browsers, ch \in KeyChars, k \in Keys, m \in KeyModifiers :
          handle_key(b, ch, k, m)
    \/ get_events

Spec == Init /\ [][Next]_vars

\* the geometry: View::new and the five geometry queries
NextGeom ==
    \/ \E g \in DrawableGeometry : ViewNew(g)
    \/ HidpiFactor
    \/ FramebufferSize
    \/ WindowRect
    \/ Size
    \/ ClientWindow
    \/ PrepareForComposite
    \/ \E ok \in BOOLEAN : gl_context_change(ok)

SpecGeom == InitGeom /\ [][NextGeom]_vars

\* the host's calls into the engine; the engine calls back into the View
\* while it runs on the host's thread
NextEngine ==
    \/ BrowserNew
    \/ \E b \in Browsers, e \in WindowEvents : handle_event(b, e)
    \/ \E b \in Browsers : perform_updates(b)
    \/ \E b \in Browsers : EngineReturn(b)
    \/ \E b \in Browsers : host_in = b /\ present(b)
    \/ \E b \in Browsers : host_in = b /\ load_end(b)
    \/ \E b \in Browsers, u \in Urls : host_in = b /\ allow_navigation(b, u)
    \/ host_in # 0 /\ WindowRect
    \/ host_in # 0 /\ Size

SpecEngine == Init /\ [][NextEngine]_vars

\* the notification callbacks of one engine next to its geometry queries
NextFrame ==
    \/ \E b \in Browsers, sz \in Sizes : set_inner_size(b, sz)
    \/ \E b \in Browsers, pt \in Points : set_position(b, pt)
    \/ \E b \in Browsers, st \in BOOLEAN : set_fullscreen_state(b, st)
    \/ \E b \in Browsers : present(b)
    \/ \E b \in Browsers, t \in OptStrings : set_page_title(b, t)
    \/ \E b \in Browsers, t \in StatusStrings : status(b, t)
    \/ \E b \in Browsers : load_start(b)
    \/ \E b \in Browsers : load_end(b)
    \/ \E b \in Browsers, u \in Strings : load_error(b, "ConnectionRefused", u)
    \/ \E b \in Browsers : head_parsed(b)
    \/ \E b \in Browsers, h \in Histories : history_changed(b, h[1], h[2])
    \/ \E b \in Browsers, c \in Cursors : set_cursor(b, c)
    \/ \E b \in Browsers, u \in Urls : set_favicon(b, u)
    \/ \E b \in Browsers, ch \in KeyChars, k \in Keys, m \in KeyModifiers :
          handle_key(b, ch, k, m)
    \/ HidpiFactor
    \/ FramebufferSize
    \/ WindowRect
    \/ Size
    \/ ClientWindow

SpecFrame == InitFrame /\ [][NextFrame]_vars

\* the queue accesses of the host's thread, statement by statement, next
\* to the sends of the engine's threads
NextBorrow ==
    \/ BrowserNew
    \/ \E b \in Browsers : perform_updates(b)
    \/ \E b \in Browsers : EngineReturn(b)
    \/ \E b \in Browsers, n \in Notifications : NotifyBorrow(b, n)
    \/ NotifyPush
    \/ get_events_borrow
    \/ get_events_drain
    \/ get_events_return
    \/ \E b \in Browsers : create_compositor_channel(b)
    \/ \E p \in Proxies, m \in Msgs : send_msg(p, m)
    \/ \E p \in Proxies : send_rise(p)

SpecBorrow == Init /\ [][NextBorrow]_vars

\* the compositor proxy and its waker, next to the event queue
NextProxy ==
    \/ BrowserNew
    \/ \E b \in Browsers : create_compositor_channel(b)
    \/ \E p \in Proxies : clone_compositor_proxy(p)
    \/ \E p \in Proxies, m \in Msgs : send_msg(p, m)
    \/ \E p \in Proxies : send_rise(p)
    \/ \E c \in Channels : receiver_recv(c)
    \/ \E c \in Channels : receiver_drop(c)
    \/ \E b \in Browsers : present(b)
    \/ get_events

SpecProxy == Init /\ [][NextProxy]_vars

\* bootstrap: Constellation::new in a changing file system
NextBoot ==
    \/ ConstellationNew
    \/ \E c \in Cwds : chdir(c)
    \/ \E d \in Dirs, exists \in BOOLEAN : set_resources_dir(d, exists)

SpecBoot == InitBoot /\ [][NextBoot]_vars

\* ------------------------------------------------------------ properties
RECURSIVE Flatten(_)
Flatten(rs) == IF rs = <<>> THEN <<>> ELSE Head(rs) \o Flatten(Tail(rs))

LastResult(rs) == rs[Len(rs)]

\* the value of a u32 below 2^31 as an integer
ToInt(u) == u[1] * Base + u[2]

\* C1: each get_events call returns exactly the events enqueued since the
\* previous call, in callback invocation order; the calls' results followed
\* by the queue are the invocation history: nothing lost, duplicated or
\* reordered.
C1_DrainExactlyOnceInOrder ==
    /\ [](history = Flatten(results) \o event_queue)
    /\ [][Len(results') > Len(results) =>
            LastResult(results') =
               SubSeq(history, Len(Flatten(results)) + 1, Len(history))]_vars

\* two different events were returned by one call, in invocation order
C1_Witness ==
    \E k \in 1..Len(results) :
        /\ Len(results[k]) >= 2
        /\ results[k][1] # results[k][2]
        /\ SubSeq(history, 1, 2) = results[k]

\* C2: the queue is empty right after every get_events call, and a
\* get_events call on an empty queue returns the empty sequence (so any run
\* of calls with no callback in between returns empty and leaves it empty).
C2_IdempotentDrain ==
    [][Len(results') > Len(results) =>
          /\ event_queue' = <<>>
          /\ (event_queue = <<>> => LastResult(results') = <<>>)]_vars

\* a call that returned events was followed at once by one that returned none
C2_Witness ==
    /\ Len(results) >= 2
    /\ results[1] # <<>>
    /\ results[2] = <<>>
    /\ history = results[1]
    /\ event_queue = <<>>

\* C3: a call of allow_navigation appends a navigation request to the queue
\* and leaves the decision pending for the host; the adapter itself never
\* answers true or false.
C3_NavigationLeftToHost ==
    [][(ret'.op = "allow_navigation" /\ ret.op # "allow_navigation") =>
          /\ ret'.val = "pending"
          /\ Len(event_queue') = Len(event_queue) + 1
          /\ LastResult(event_queue').type = "AllowNavigation"]_vars

\* C4: with two or more browsing contexts, every queued context-specific
\* event (all but the cursor change and the key event) carries the id of a
\* Browser, and the latest one the id of the Browser whose engine produced it.
ContextSpecific(e) == e.type \notin {"CursorChanged", "Key"}

\* the id an event carries; 0 when it carries none (Browsers count from 1)
EventBrowserId(e) == IF "browser_id" \in DOMAIN e THEN e.browser_id ELSE 0

C4_EventsTaggedWithOrigin ==
    (Len(servo_browser) >= 2 /\ event_queue # <<>>) =>
        /\ \A i \in 1..Len(event_queue) :
              ContextSpecific(event_queue[i]) => EventBrowserId(event_queue[i]) \in Browsers
        /\ ContextSpecific(LastResult(event_queue)) =>
              EventBrowserId(LastResult(event_queue)) = last_origin

\* C5: a delivered message that no wake has followed yet belongs to a send
\* that is still running and about to wake; so messages never outnumber the
\* wakes issued plus the wakes that running sends are about to issue.
Rising == {p \in Proxies : proxies[p].pc = "rise"}

C5_WakeFollowsEveryMessage ==
    /\ \A p \in unwoken : p \in Rising
    /\ (sends - warnings) <= wakes + Cardinality(Rising)

\* the proxy has a clone, messages wait in the channel, every send has
\* returned, and the host loop was woken
C5_Witness ==
    /\ Len(proxies) >= 2
    /\ Rising = {}
    /\ sends >= 1
    /\ wakes = sends
    /\ \E c \in Channels : Len(channels[c].queue) = sends

\* the scaled margins, as window_rect computes them
ScaledMargin(g, i) == U32Mul(g.margins[i], AsU32(g.hidpi_factor)).val

\* a + b < c, with a + b the true sum
SumLt(a, b, c) == ~U32Add(a, b).overflow /\ U32Lt(U32Add(a, b).val, c)

\* a + b <= c, with a + b the true sum
SumLe(a, b, c) == ~U32Add(a, b).overflow /\ U32Le(U32Add(a, b).val, c)

MarginsFit(g) ==
    /\ SumLt(ScaledMargin(g, 4), ScaledMargin(g, 2), framebuffer_size(g).width)
    /\ SumLt(ScaledMargin(g, 1), ScaledMargin(g, 3), framebuffer_size(g).height)

\* C6: when the scaled left and right margins together are smaller than the
\* framebuffer width, and the scaled top and bottom margins together smaller
\* than its height, the rectangle window_rect returns lies inside
\* (0,0)-framebuffer_size.
C6_WindowRectInsideFramebuffer ==
    (ret.op = "window_rect" /\ MarginsFit(geometry)) =>
        /\ SumLe(ret.val.origin[1], ret.val.size[1], framebuffer_size(geometry).width)
        /\ SumLe(ret.val.origin[2], ret.val.size[2], framebuffer_size(geometry).height)

\* window_rect returned a rectangle with both coordinates of its origin off
\* zero, for margins that fit
C6_Witness ==
    /\ ret.op = "window_rect"
    /\ MarginsFit(geometry)
    /\ ret.val.origin[1] # U32Zero
    /\ ret.val.origin[2] # U32Zero

\* C7: window_rect returns origin (left*s, top*s) and size (framebuffer
\* width - left*s - right*s, framebuffer height - top*s - bottom*s), s the
\* truncated hidpi factor; for view (800,600), margins (20,0,0,0), factor 2.0
\* the framebuffer is (1600,1200) and the rectangle origin (0,40), size
\* (1600,1160).
ExampleGeometry(g) ==
    /\ g.view_size = <<U32(800), U32(600)>>
    /\ g.margins = <<U32(20), U32(0), U32(0), U32(0)>>
    /\ g.hidpi_factor = 2 * HidpiDenom

AllSmall(g) ==
    /\ \A i \in 1..4 : g.margins[i][1] = 0
    /\ \A i \in 1..2 : g.view_size[i][1] = 0

C7_WindowRectReference ==
    LET g == geometry
        s == g.hidpi_factor \div HidpiDenom
        fb == framebuffer_size(g)
        top == ToInt(g.margins[1])
        right == ToInt(g.margins[2])
        bottom == ToInt(g.margins[3])
        left == ToInt(g.margins[4])
    IN  /\ ret.op = "window_rect" =>
             /\ ret.val.origin = <<ScaledMargin(g, 4), ScaledMargin(g, 1)>>
             /\ ret.val.size[1] =
                   U32Sub(U32Sub(fb.width, ScaledMargin(g, 4)).val, ScaledMargin(g, 2)).val
             /\ ret.val.size[2] =
                   U32Sub(U32Sub(fb.height, ScaledMargin(g, 1)).val, ScaledMargin(g, 3)).val
        /\ (ret.op = "window_rect" /\ AllSmall(g) /\ MarginsFit(g)) =>
             /\ ret.val.origin = <<U32(left * s), U32(top * s)>>
             /\ ret.val.size[1] = U32(ToInt(fb.width) - left * s - right * s)
             /\ ret.val.size[2] = U32(ToInt(fb.height) - top * s - bottom * s)
        /\ (ret.op = "framebuffer_size" /\ ExampleGeometry(g)) =>
             ret.val = <<U32(1600), U32(1200)>>
        /\ (ret.op = "window_rect" /\ ExampleGeometry(g)) =>
             ret.val = [origin |-> <<U32(0), U32(40)>>,
                        size |-> <<U32(1600), U32(1160)>>]

\* window_rect was asked for the example geometry
C7_Witness ==
    /\ ret.op = "window_rect"
    /\ ExampleGeometry(geometry)

\* C8: framebuffer_size is the view size times the fractional hidpi factor
\* (800 wide at 1.5 gives 1200), while window_rect scales the margins by the
\* factor truncated to an integer.
C8_FramebufferUsesFractionalFactor ==
    /\ (ret.op = "framebuffer_size" /\ AllSmall(geometry)) =>
          /\ ToInt(ret.val[1]) =
                (ToInt(geometry.view_size[1]) * geometry.hidpi_factor) \div HidpiDenom
          /\ ToInt(ret.val[2]) =
                (ToInt(geometry.view_size[2]) * geometry.hidpi_factor) \div HidpiDenom
    /\ (ret.op = "window_rect" /\ AllSmall(geometry)) =>
          /\ ToInt(ret.val.origin[1]) =
                ToInt(geometry.margins[4]) * (geometry.hidpi_factor \div HidpiDenom)
          /\ ToInt(ret.val.origin[2]) =
                ToInt(geometry.margins[1]) * (geometry.hidpi_factor \div HidpiDenom)

\* C9: client_window returns the size and position of the geometry most
\* recently passed to View::new, however many queries came before it.
C9_ClientWindowIsLatestGeometry ==
    ret.op = "client_window" =>
        /\ ret.val.size = published.view_size
        /\ ret.val.point = published.position

\* after a second View::new, client_window answered as the second query
C9_Witness ==
    /\ views >= 2
    /\ queries >= 2
    /\ ret.op = "client_window"
    /\ ret.val.point # <<0, 0>>

\* C10: a wake changes neither the queue nor the record of what callbacks
\* enqueued, and the next get_events still returns exactly the events
\* enqueued since the previous one.
C10_WakesLeaveQueueAlone ==
    /\ [][wakes' # wakes =>
            /\ event_queue' = event_queue
            /\ history' = history]_vars
    /\ [][Len(results') > Len(results) =>
            /\ LastResult(results') = event_queue
            /\ Flatten(results') = history]_vars

\* the host was woken twice since its last poll and then drained two events
C10_Witness ==
    /\ Len(results) >= 1
    /\ wakes >= 2
    /\ wakes_at_poll = wakes
    /\ Len(LastResult(results)) = 2

\* C12: a Constellation::new call that finds no servo_resources/ under the
\* working directory returns an error and leaves the process-wide
\* configuration as it was; a call returns a Constellation only when the
\* directory exists.
C12_MissingResourcesIsAnError ==
    [][(fs' = fs /\ ret'.op = "Constellation::new") =>
          /\ (fs.cwd \notin fs.resources) =>
                (ret'.val = "Err" /\ config' = config)
          /\ ret'.val = "Ok" =>
                (fs.cwd \in fs.resources /\ config'.resources_path # "unset")]_vars

\* after a successful call, the directory went away and the next call failed
C12_Witness ==
    /\ ret.op = "Constellation::new"
    /\ ret.val = "Err"
    /\ fs.cwd \notin fs.resources
    /\ config.defaults_set = 1

\* C18: over any sequence of Constellation::new calls the default options
\* are set at most once.
C18_ConfigurationSetOnce == config.defaults_set <= 1

\* C11: a send that finds the receiver gone logs one warning, does not
\* panic, and goes on to wake the host: it returns only through rise.
C11_FailedSendLogsAndWakes ==
    /\ [][(sends' > sends /\ \A c \in Channels : ~channels[c].alive) =>
            /\ warnings' = warnings + 1
            /\ ~panicked'
            /\ channels' = channels
            /\ \E p \in Proxies : proxies[p].pc = "idle" /\ proxies'[p].pc = "rise"]_vars
    /\ [][\A p \in Proxies :
            (proxies[p].pc = "rise" /\ proxies'[p].pc = "idle") =>
                wakes' = wakes + 1]_vars

\* the receiver is gone, a send failed and was logged, and it has returned
\* after waking the host
C11_Witness ==
    /\ \A c \in Channels : ~channels[c].alive
    /\ warnings >= 1
    /\ sends = warnings
    /\ wakes = sends
    /\ \A p \in Proxies : proxies[p].pc = "idle"
    /\ ~panicked

\* C17: for a positive hidpi factor, a width or height returned by
\* window_rect is never a wrapped-around value: where the scaled margins of
\* a dimension exceed the framebuffer, the returned extent is zero (or the
\* call did not return).
C17_WindowRectNeverWraps ==
    (ret.op = "window_rect" /\ geometry.hidpi_factor > 0) =>
        /\ \/ SumLe(ScaledMargin(geometry, 4), ScaledMargin(geometry, 2),
                    framebuffer_size(geometry).width)
           \/ ret.val.size[1] = U32Zero
        /\ \/ SumLe(ScaledMargin(geometry, 1), ScaledMargin(geometry, 3),
                    framebuffer_size(geometry).height)
           \/ ret.val.size[2] = U32Zero

\* C19: prepare_for_composite returns true exactly when the GL context
\* could be made current, and false otherwise.
C19_PrepareReportsGlFailure ==
    ret.op = "prepare_for_composite" => ret.val = gl_ok

\* the batches the engine of a Browser must have received for the calls c
ForwardedBatches(c) ==
    [i \in 1..Len(c) |->
        IF c[i].name = "handle_event" THEN <<c[i].args[1]>> ELSE <<>>]

\* C13: while handle_event or perform_updates holds the exclusive borrow of
\* the engine handle, the callbacks and geometry queries the engine makes
\* leave the handle alone: no borrow fails, and the only borrow ever held is
\* the one of the call the host is in.
C13_NoSecondBorrowOfEngine ==
    /\ [](~panicked)
    /\ [](\A b \in Browsers : servo_browser[b].borrowed <=> host_in = b)
    /\ [][(host_in # 0 /\ host_in' = host_in) =>
              servo_browser' = servo_browser]_vars

\* the engine has called back and queried the geometry inside a host call
C13_Witness ==
    /\ host_in # 0
    /\ servo_browser[host_in].borrowed
    /\ event_queue # <<>>
    /\ last_origin = host_in
    /\ queries >= 1
    /\ ~panicked

\* C15: the engine of every Browser has received, after the batch of
\* Browser::new, exactly one batch per host call, in call order: [e] for
\* handle_event(e) and the empty batch for perform_updates.
C15_PureForwarder ==
    \A b \in Browsers :
        servo_browser[b].batches =
            << <<"InitializeCompositing">> >> \o
                ForwardedBatches(servo_browser[b].calls)

\* a Browser has served a handle_event and then a perform_updates
C15_Witness ==
    \E b \in Browsers :
        /\ Len(servo_browser[b].calls) = 2
        /\ servo_browser[b].calls[1].name = "handle_event"
        /\ servo_browser[b].calls[2].name = "perform_updates"
        /\ host_in = 0

\* C20: the first batch the engine of a Browser receives is
\* [InitializeCompositing], before the batch of any host call, and a later
\* batch holds InitializeCompositing only when the host itself passed it to
\* handle_event: the adapter never adds it again.
C20_InitializeCompositingFirstAndOnce ==
    \A b \in Browsers :
        LET batches == servo_browser[b].batches
            calls == servo_browser[b].calls
        IN  /\ Len(batches) = Len(calls) + 1
            /\ batches[1] = <<"InitializeCompositing">>
            /\ \A k \in 2..Len(batches) :
                  (\E i \in 1..Len(batches[k]) :
                        batches[k][i] = "InitializeCompositing") =>
                     calls[k - 1] = Call("handle_event", <<"InitializeCompositing">>)

\* a Browser whose engine has been through a perform_updates pass and a
\* handle_event of another event
C20_Witness ==
    \E b \in Browsers :
        /\ Len(servo_browser[b].batches) = 3
        /\ servo_browser[b].calls[1].name = "perform_updates"
        /\ servo_browser[b].calls[2] = Call("handle_event", <<"Refresh">>)

\* the BrowserEvent variant that matches a callback
MatchingVariant(name) ==
    CASE name = "set_inner_size" -> "SetWindowInnerSize"
      [] name = "set_position" -> "SetWindowPosition"
      [] name = "set_fullscreen_state" -> "SetFullScreenState"
      [] name = "present" -> "Present"
      [] name = "set_page_title" -> "TitleChanged"
      [] name = "status" -> "StatusChanged"
      [] name = "load_start" -> "LoadStart"
      [] name = "load_end" -> "LoadEnd"
      [] name = "load_error" -> "LoadError"
      [] name = "head_parsed" -> "HeadParsed"
      [] name = "history_changed" -> "HistoryChanged"
      [] name = "set_cursor" -> "CursorChanged"
      [] name = "set_favicon" -> "FaviconChanged"
      [] name = "handle_key" -> "Key"

\* the arguments of a callback, a size or a point as its two coordinates
AllArguments(c) ==
    IF c.name \in {"set_inner_size", "set_position"}
    THEN <<c.args[1][1], c.args[1][2]>>
    ELSE c.args

\* the arguments of a callback that its event has a place for: load_error
\* keeps the url only
CarriedArguments(c) ==
    IF c.name = "load_error" THEN <<c.args[2]>> ELSE AllArguments(c)

\* C16 as stated: each notification callback appends exactly one event, of
\* the matching variant and carrying the callback's arguments unchanged, and
\* leaves the earlier events and the geometry alone; the geometry queries
\* change neither the queue nor the geometry.
C16_CallbacksCarryAllArguments ==
    /\ [][Len(history') > Len(history) =>
            /\ event_queue' =
                  Append(event_queue,
                         [type |-> MatchingVariant(last_call'.name),
                          args |-> AllArguments(last_call')])
            /\ geometry' = geometry]_vars
    /\ [][queries' # queries =>
            /\ event_queue' = event_queue
            /\ geometry' = geometry]_vars

\* C16, amended: as stated, except that the event of load_error carries the
\* url only (its NetError argument is dropped).
C16_CallbacksAppendQueriesReadOnly ==
    /\ [][Len(history') > Len(history) =>
            /\ event_queue' =
                  Append(event_queue,
                         [type |-> MatchingVariant(last_call'.name),
                          args |-> CarriedArguments(last_call')])
            /\ geometry' = geometry]_vars
    /\ [][queries' # queries =>
            /\ event_queue' = event_queue
            /\ geometry' = geometry]_vars

\* a load_error was queued behind an earlier event, and a geometry query
\* has run since
C16_Witness ==
    /\ Len(event_queue) = 2
    /\ last_call.name = "load_error"
    /\ event_queue[2].type = "LoadError"
    /\ ret.op = "window_rect"

====
